---------------------------- MODULE Spec2Model ----------------------------
(***************************************************************************)
(* Model of Converse API/Tool-Use/Mistral_Large_2_JSON_Mode.ipynb.         *)
(*                                                                         *)
(*   SpecGraph    the graph assembly cell: the graph is seeded with the    *)
(*                phase-1 vocabulary (schema) and the phase-2 relationship *)
(*                list is folded into it, one record per step.             *)
(*   SpecExtract  extract_values_from_benchmark_output: the scan of the    *)
(*                load tool's output lines for "<field name>: <number> ".  *)
(*   SpecTwoPass  the entity call, the schema accumulation, the            *)
(*                relationship call and the graph assembly, cell by cell.  *)
(*   SpecProperty the call cell of the property store examples: a request  *)
(*                that declares two tools, and the pick of the toolUse     *)
(*                block out of a response of several blocks.               *)
(*   SpecBench    the deploy cells, the four benchmark run cells and the   *)
(*                cleanup cell of the benchmark notebook.                  *)
(*   SpecSession  a session that runs either notebook from its first cell. *)
(*                                                                         *)
(* Python strings that the code only compares are TLA+ strings; strings    *)
(* the code searches or parses are sequences of one-character strings.     *)
(* A Python dict is a function whose DOMAIN is its key set.                *)
(***************************************************************************)
EXTENDS Integers, Sequences, FiniteSets, TLC

VARIABLES
    schema,            \* list of entity names collected in phase 1
    tool_result_dict,  \* the result mapping of the latest call
    G,                 \* the networkx graph: [node, adj]
    pc,                \* the cell, or the step within it, that runs next
    idx,               \* 1-based position of the for loop in the edge list
    err,               \* the uncaught exception of the cell, or "none"
    output_data,       \* extract_values...: the list of output lines
    field_name,        \* extract_values...: the field searched for
    line_no,           \* extract_values...: 1-based position of the scan
    value,             \* extract_values...: the local `value`, or Unbound
    result,            \* extract_values...: what the call returned
    xpc,               \* extract_values...: position in the function
    xerr,              \* extract_values...: the exception it raised, or "none"
    response,          \* content blocks of the latest Converse response
    tool_use_block,    \* the toolUse entry picked from the response
    tool_list,         \* the tool declarations of the next request
    message,           \* the user message of the next request
    calls,             \* the requests submitted to the remote service, in order
    inflight,          \* number of remote calls submitted and not yet returned
    cell,              \* which of the four deploy / run / delete cells is next
    endpoints,         \* the account's endpoints: name -> instance type, status
    model,             \* status of the model package
    environ,           \* os.environ: endpoint URL and the credential triple
    credentials,       \* number of credential objects obtained so far
    endpoint_name,     \* the notebook global of that name
    output,            \* lines captured from the load tool
    instance_type,     \* the notebook global of that name
    avg_latency,       \* the notebook global of that name
    benchmark_results, \* the results list
    dataset_files      \* the payload files in the dataset directory

vars == <<schema, tool_result_dict, G, pc, idx, err,
          output_data, field_name, line_no, value, result, xpc, xerr,
          response, tool_use_block, tool_list, message, calls, inflight,
          cell, endpoints, model, environ, credentials, endpoint_name,
          output, instance_type, avg_latency, benchmark_results,
          dataset_files>>

graphVars == <<schema, tool_result_dict, G, pc, idx, err>>
extractVars == <<output_data, field_name, line_no, value, result, xpc, xerr>>
callVars == <<response, tool_use_block, tool_list, message, calls, inflight>>
benchVars == <<cell, endpoints, model, environ, credentials, endpoint_name,
               output, instance_type, avg_latency, benchmark_results,
               dataset_files>>

\* The benchmark notebook has not run.
BenchIdle ==
    /\ cell = 0
    /\ endpoints = <<>>
    /\ model = "none"
    /\ environ = <<>>
    /\ credentials = 0
    /\ endpoint_name = ""
    /\ output = <<>>
    /\ instance_type = ""
    /\ avg_latency = [tag |-> "Unset"]
    /\ benchmark_results = <<>>
    /\ dataset_files = <<>>

\* No request has been built or sent.
CallIdle ==
    /\ response = <<>>
    /\ tool_use_block = [tag |-> "Unset"]
    /\ tool_list = <<>>
    /\ message = <<>>
    /\ calls = <<>>
    /\ inflight = 0

----------------------------------------------------------------------------
(* Bounds *)

MaxSchema == 2     \* longest phase-1 entity list explored
MaxRecords == 2    \* longest phase-2 relationship list explored
MaxLines == 2      \* longest benchmark output explored
MaxBlocks == 3     \* most content blocks in a response explored

SeqsUpTo(S, n) == UNION {[1..k -> S] : k \in 0..n}

Range(s) == {s[k] : k \in DOMAIN s}

----------------------------------------------------------------------------
(* Flow A: inputs of the graph assembly cell *)

EntityNames == {"A", "B"}
Labels == {"works at"}
Keys == {"entity_1", "entity_2", "relationship"}

ValuesOf(k) == IF k = "relationship" THEN Labels ELSE EntityNames

\* A relationship record as the remote model may return it: any subset of
\* the three keys (the schema is advisory), endpoint values any entity name
\* (the enum is advisory too).
Relationships ==
    UNION {{r \in [D -> EntityNames \cup Labels] : \A k \in D : r[k] \in ValuesOf(k)}
           : D \in SUBSET Keys}

Schemas == SeqsUpTo(EntityNames, MaxSchema)
EdgeLists == SeqsUpTo(Relationships, MaxRecords)

\* The phase-2 result: a dict that carries the list under 'edge', or lacks it.
ToolResults == {[edge |-> l] : l \in EdgeLists} \cup {<<>>}

----------------------------------------------------------------------------
(* networkx.Graph as the cell uses it.  adj[u][v] is the number of edge     *)
(* entries stored between u and v: Graph keeps one attribute dict per pair. *)

EmptyGraph == [node |-> {}, adj |-> <<>>]

HasNode(g, n) == n \in g.node

AddNode(g, n) ==
    IF n \in g.node THEN g
    ELSE [node |-> g.node \cup {n},
          adj |-> [m \in g.node \cup {n} |-> IF m = n THEN <<>> ELSE g.adj[m]]]

RECURSIVE AddNodesFrom(_, _)
AddNodesFrom(g, names) ==
    IF names = <<>> THEN g
    ELSE AddNodesFrom(AddNode(g, Head(names)), Tail(names))

\* self._adj[u][v] = datadict : one entry per neighbour, overwritten.
SetAdj(adj, u, v) ==
    [adj EXCEPT ![u] = [w \in DOMAIN adj[u] \cup {v} |->
                          IF w = v THEN 1 ELSE adj[u][w]]]

\* MultiGraph keeps one entry per call instead of one per pair.
SetAdjMulti(adj, u, v) ==
    [adj EXCEPT ![u] = [w \in DOMAIN adj[u] \cup {v} |->
                          IF w = v
                          THEN (IF v \in DOMAIN adj[u] THEN adj[u][v] + 1 ELSE 1)
                          ELSE adj[u][w]]]

\* DiGraph stores the edge at its source only.
AddEdgeDirected(g, u, v) ==
    LET g1 == AddNode(AddNode(g, u), v)
    IN  [g1 EXCEPT !.adj = SetAdj(g1.adj, u, v)]

\* One edge entry per add_edge call (MultiGraph).
AddEdgeMulti(g, u, v) ==
    LET g1 == AddNode(AddNode(g, u), v)
    IN  [g1 EXCEPT !.adj = IF u = v THEN SetAdjMulti(g1.adj, u, v)
                           ELSE SetAdjMulti(SetAdjMulti(g1.adj, u, v), v, u)]

\* add_edge that refuses u = v.
AddEdgeNoLoop(g, u, v) ==
    IF u = v THEN g
    ELSE LET g1 == AddNode(AddNode(g, u), v)
         IN  [g1 EXCEPT !.adj = SetAdj(SetAdj(g1.adj, u, v), v, u)]

\* Graph.add_edge(u, v): both endpoints become nodes if they are not, then
\* the edge is stored at both ends.
AddEdge(g, u, v) ==
    LET g1 == AddNode(AddNode(g, u), v)
    IN  [g1 EXCEPT !.adj = SetAdj(SetAdj(g1.adj, u, v), v, u)]

HasEdge(g, u, v) == u \in g.node /\ v \in DOMAIN g.adj[u]

\* Graph.number_of_edges(u, v)
NumberOfEdges(g, u, v) == IF HasEdge(g, u, v) THEN g.adj[u][v] ELSE 0

\* Neighbours of an isolated node: none.
Degree(g, n) == Cardinality(DOMAIN g.adj[n])

----------------------------------------------------------------------------
(* The graph assembly cell *)

\* 'entity_1' in relationship or 'entity_2' in relationship
HasEitherKey(r) == "entity_1" \in DOMAIN r \/ "entity_2" \in DOMAIN r

\* 'entity_1' in relationship and 'entity_2' in relationship
HasBothKeys(r) == "entity_1" \in DOMAIN r /\ "entity_2" \in DOMAIN r

\* nx.Graph() without the seeding call.
SeededEmpty(names) == EmptyGraph

\* G = nx.Graph(); G.add_nodes_from(schema)
Seeded(names) == AddNodesFrom(EmptyGraph, names)

InitGraph ==
    /\ schema \in Schemas
    /\ tool_result_dict \in ToolResults
    /\ G = EmptyGraph
    /\ pc = "seed"
    /\ idx = 0
    /\ err = "none"

SeedGraph ==
    /\ pc = "seed"
    /\ G' = Seeded(schema)
    /\ pc' = "for"
    /\ UNCHANGED <<schema, tool_result_dict, idx, err>>

\* for relationship in tool_result_dict['edge']: the subscript is evaluated
\* once, on entry.
ForEnter ==
    /\ pc = "for"
    /\ IF "edge" \in DOMAIN tool_result_dict
       THEN pc' = "loop" /\ idx' = 1 /\ err' = err
       ELSE pc' = "failed" /\ err' = "KeyError" /\ idx' = idx
    /\ UNCHANGED <<schema, tool_result_dict, G>>

\* One iteration of the loop body on record idx.
ProcessRelationship ==
    /\ pc = "loop"
    /\ idx <= Len(tool_result_dict.edge)
    /\ LET relationship == tool_result_dict.edge[idx]
       IN  IF HasBothKeys(relationship)
           THEN IF {"entity_1", "entity_2"} \subseteq DOMAIN relationship
                THEN /\ G' = AddEdge(G, relationship["entity_1"],
                                        relationship["entity_2"])
                     /\ idx' = idx + 1
                     /\ UNCHANGED <<pc, err>>
                ELSE \* a subscript on a missing key
                     /\ pc' = "failed"
                     /\ err' = "KeyError"
                     /\ UNCHANGED <<G, idx>>
           ELSE /\ idx' = idx + 1
                /\ UNCHANGED <<G, pc, err>>
    /\ UNCHANGED <<schema, tool_result_dict>>

ForExit ==
    /\ pc = "loop"
    /\ idx > Len(tool_result_dict.edge)
    /\ pc' = "done"
    /\ UNCHANGED <<schema, tool_result_dict, G, idx, err>>

ExtractIdle ==
    /\ output_data = <<>>
    /\ field_name = <<>>
    /\ line_no = 0
    /\ value = [tag |-> "Unbound"]
    /\ result = [tag |-> "NoResult"]
    /\ xpc = "idle"
    /\ xerr = "none"

NextGraph ==
    \/ SeedGraph /\ UNCHANGED <<extractVars, callVars, benchVars>>
    \/ ForEnter /\ UNCHANGED <<extractVars, callVars, benchVars>>
    \/ ProcessRelationship /\ UNCHANGED <<extractVars, callVars, benchVars>>
    \/ ForExit /\ UNCHANGED <<extractVars, callVars, benchVars>>

\* The state before the graph assembly cell runs; Flow B has not started.
InitFlowA == InitGraph /\ ExtractIdle /\ CallIdle /\ BenchIdle

SpecGraph == InitFlowA /\ [][NextGraph]_vars

----------------------------------------------------------------------------
(* Graph assembly: properties *)

Edges == tool_result_dict.edge

InLoop == pc \in {"loop", "done"}

\* The records the loop has already gone through.
Processed == IF InLoop THEN 1..(IF idx - 1 < Len(Edges) THEN idx - 1 ELSE Len(Edges))
             ELSE {}

Valid(r) == {"entity_1", "entity_2"} \subseteq DOMAIN r

SameEndpoints(r, s) ==
    /\ Valid(r) /\ Valid(s)
    /\ {r["entity_1"], r["entity_2"]} = {s["entity_1"], s["entity_2"]}

\* C1: a record that lacks entity_1 or entity_2 is skipped: the step that
\* processes it changes neither the nodes nor the edges of the graph, raises
\* nothing, and moves the loop on to the next record.
C1_MalformedSkipped ==
    [][(pc = "loop" /\ idx <= Len(Edges) /\ ~Valid(Edges[idx]))
         => (G' = G /\ err' = "none" /\ pc' = "loop" /\ idx' = idx + 1)]_vars

\* C1 witness: the loop finished over a list whose first record is malformed
\* and whose second record, processed after it, put its edge in the graph.
C1_Witness ==
    /\ pc = "done" /\ err = "none"
    /\ Len(Edges) = 2
    /\ ~Valid(Edges[1])
    /\ Valid(Edges[2])
    /\ HasEdge(G, Edges[2]["entity_1"], Edges[2]["entity_2"])

\* C2: every processed record that has both keys has its edge in the graph,
\* in the state right after it and in every later state of the fold, and
\* edge presence is symmetric in every state.
C2_EdgePresentSymmetric ==
    /\ \A j \in Processed :
         Valid(Edges[j]) => HasEdge(G, Edges[j]["entity_1"], Edges[j]["entity_2"])
    /\ \A u \in EntityNames, v \in EntityNames :
         HasEdge(G, u, v) <=> HasEdge(G, v, u)

\* C2 witness: an edge between two different nodes was added by the first
\* record and is still there after a second valid record was processed.
C2_Witness ==
    /\ pc = "done"
    /\ Len(Edges) = 2
    /\ Valid(Edges[1]) /\ Valid(Edges[2])
    /\ Edges[1]["entity_1"] # Edges[1]["entity_2"]
    /\ ~SameEndpoints(Edges[1], Edges[2])
    /\ HasEdge(G, Edges[1]["entity_2"], Edges[1]["entity_1"])

\* The names some processed valid record refers to.
Referenced ==
    UNION {{Edges[j]["entity_1"], Edges[j]["entity_2"]} :
           j \in {k \in Processed : Valid(Edges[k])}}

\* C3: once the graph is seeded every phase-1 name is a node, in every later
\* state and for every relationship list (also when the list is missing),
\* and a name no processed record refers to has no neighbour.
C3_VocabularyAreNodes ==
    pc # "seed" =>
        \A n \in Range(schema) :
            /\ HasNode(G, n)
            /\ (n \notin Referenced => Degree(G, n) = 0)

\* C3 witness: the fold ended over a non-empty list of malformed records
\* only, and the two seeded names are isolated nodes.
C3_Witness ==
    /\ pc = "done"
    /\ Cardinality(Range(schema)) = 2
    /\ Len(Edges) > 0
    /\ \A j \in 1..Len(Edges) : ~Valid(Edges[j])
    /\ \A n \in Range(schema) : HasNode(G, n) /\ Degree(G, n) = 0

\* C4: no pair of nodes ever carries more than one edge; records with the
\* same endpoints leave exactly one edge between them, and the step that
\* processes a record whose endpoints an earlier record had leaves the graph
\* as it was.
C4_NoMultiEdge ==
    /\ [](\A u \in EntityNames, v \in EntityNames : NumberOfEdges(G, u, v) <= 1)
    /\ [](\A j \in Processed, k \in Processed :
            (j # k /\ SameEndpoints(Edges[j], Edges[k]))
              => NumberOfEdges(G, Edges[j]["entity_1"], Edges[j]["entity_2"]) = 1)
    /\ [][(pc = "loop" /\ idx <= Len(Edges)
            /\ \E j \in Processed : SameEndpoints(Edges[j], Edges[idx]))
          => G' = G]_vars

\* C4 witness: two records with identical endpoints were both processed.
C4_Witness ==
    /\ pc = "done"
    /\ Len(Edges) = 2
    /\ Valid(Edges[1])
    /\ Edges[1]["entity_1"] # Edges[1]["entity_2"]
    /\ Edges[2] = Edges[1]
    /\ NumberOfEdges(G, Edges[1]["entity_1"], Edges[1]["entity_2"]) = 1

\* C5 (as claimed): the nodes of the final graph are exactly the phase-1
\* names and every edge joins two of them.
C5_OnlyVocabulary ==
    pc = "done" =>
        /\ G.node = Range(schema)
        /\ \A u \in EntityNames, v \in EntityNames :
             HasEdge(G, u, v) => (u \in Range(schema) /\ v \in Range(schema))

\* C6: a processed record that has both keys and names the same entity twice
\* leaves an edge from that node to itself.
C6_SelfLoopKept ==
    \A j \in Processed :
        (Valid(Edges[j]) /\ Edges[j]["entity_1"] = Edges[j]["entity_2"])
          => NumberOfEdges(G, Edges[j]["entity_1"], Edges[j]["entity_1"]) = 1

\* C6 witness: the fold ended with a self-loop on a seeded node.
C6_Witness ==
    /\ pc = "done"
    /\ \E j \in 1..Len(Edges) :
         /\ Valid(Edges[j])
         /\ Edges[j]["entity_1"] = Edges[j]["entity_2"]
         /\ Edges[j]["entity_1"] \in Range(schema)
         /\ HasEdge(G, Edges[j]["entity_1"], Edges[j]["entity_1"])

----------------------------------------------------------------------------
(* Flow B: the output lines of the load tool *)

AverageLatency == <<"A", "v", "e", "r", "a", "g", "e", " ", "L", "a", "t", "e", "n", "c", "y">>
TPS == <<"T", "P", "S">>

FieldNames == {AverageLatency, TPS}

\* What stands between the colon and the number, the number text, and what
\* follows the number.
Gaps == {<<" ">>, <<>>}
NumberTexts == {<<"1", "2", "3", ".", "4", "5">>, <<"9", "9">>, <<"1", ".", "2", ".", "3">>}
Tails == {<<" ", "m", "s">>, <<>>, <<"m", "s">>}

ReportLines ==
    {f \o <<":">> \o g \o n \o t :
        f \in FieldNames, g \in Gaps, n \in NumberTexts, t \in Tails}

\* A label inside a longer label, and a number with a trailing zero.
PrefixedLine == <<"M", "a", "x", " ">> \o AverageLatency \o <<":", " ", "9", "9", " ", "m", "s">>
TrailingZeroLine == AverageLatency \o <<":", " ", "9", "9", ".", "0", " ", "m", "s">>

\* Two labelled numbers on one line, the second of them malformed.
DoubleLine == AverageLatency \o <<":", " ", "9", "9", " ">> \o AverageLatency \o <<":", " ", "1", ".", "2", ".", "3", " ", "m", "s">>

Lines == ReportLines \cup {PrefixedLine, TrailingZeroLine, DoubleLine}

Outputs == SeqsUpTo(Lines, MaxLines)

----------------------------------------------------------------------------
(* re.search(pattern, line) for pattern = field_name + r":\s([\d\.]+)\s"   *)

Digits == <<"0", "1", "2", "3", "4", "5", "6", "7", "8", "9">>

IsDigit(c) == c \in Range(Digits)

\* \s
IsSpace(c) == c \in {" ", "\t"}

\* [\d]  (the class without the dot)
IsDigitOnly(c) == IsDigit(c)

\* [\d\.]
IsNumChar(c) == IsDigit(c) \/ c = "."

Max(S) == CHOOSE x \in S : \A y \in S : y <= x
Min(S) == CHOOSE x \in S : \A y \in S : x <= y

\* Where the greedy [\d\.]+ that starts at s ends (s - 1: it matched nothing).
\* The \s that follows is disjoint from the class, so backing off never helps.
RunEnd(line, s) ==
    Max({e \in (s - 1)..Len(line) : \A k \in s..e : IsNumChar(line[k])})

\* The pattern matches with its first character at position p.
MatchAt(line, field, p) ==
    LET n == Len(field)
        s == p + n + 2
        e == RunEnd(line, s)
    IN  /\ p + n + 1 <= Len(line)
        /\ SubSeq(line, p, p + n - 1) = field
        /\ line[p + n] = ":"
        /\ IsSpace(line[p + n + 1])
        /\ e >= s
        /\ e + 1 <= Len(line)
        /\ IsSpace(line[e + 1])

NoMatch == [tag |-> "None"]

\* The leftmost match, as [group |-> match.group(1)], or NoMatch for None.
Search(line, field) ==
    LET P == {p \in 1..Len(line) : MatchAt(line, field, p)}
    IN  IF P = {} THEN NoMatch
        ELSE LET p == Min(P)
                 s == p + Len(field) + 2
             IN  [group |-> SubSeq(line, s, RunEnd(line, s))]

----------------------------------------------------------------------------
(* float(text) on a text of digits and dots.  A float is kept as a decimal  *)
(* [mant, frac] with value mant / 10^frac and no trailing zero in frac.     *)

DigitVal(c) == (CHOOSE k \in 1..10 : Digits[k] = c) - 1

RECURSIVE DigitsValue(_)
DigitsValue(s) ==
    IF s = <<>> THEN 0
    ELSE DigitsValue(SubSeq(s, 1, Len(s) - 1)) * 10 + DigitVal(s[Len(s)])

RECURSIVE Normalise(_, _)
Normalise(m, f) ==
    IF f > 0 /\ m % 10 = 0 THEN Normalise(m \div 10, f - 1)
    ELSE [mant |-> m, frac |-> f]

ValueError == [tag |-> "ValueError"]

DotsOf(text) == {k \in 1..Len(text) : text[k] = "."}

Float(text) ==
    LET dots == DotsOf(text)
    IN  IF Cardinality(dots) > 1 \/ Len(text) - Cardinality(dots) = 0
        THEN ValueError
        ELSE IF dots = {}
        THEN [mant |-> DigitsValue(text), frac |-> 0]
        ELSE LET d == CHOOSE k \in dots : TRUE
             IN  Normalise(DigitsValue(SubSeq(text, 1, d - 1)
                                        \o SubSeq(text, d + 1, Len(text))),
                           Len(text) - d)

----------------------------------------------------------------------------
(* extract_values_from_benchmark_output(output_data, field_name) *)

Unbound == [tag |-> "Unbound"]
NoResult == [tag |-> "NoResult"]

\* `value = 0.0` ahead of the loop.
LocalValueDefault == [mant |-> 0, frac |-> 0]

\* The local `value` on entry: the function assigns nothing before the loop.
LocalValueOnEntry == Unbound

\* The loop going on to the next line after a match.
AfterMatchContinue(n) == [xpc |-> "for", line_no |-> n + 1]

\* break: the loop is left at the line that matched.
AfterMatch(n) == [xpc |-> "return", line_no |-> n]

InitExtract ==
    /\ output_data \in Outputs
    /\ field_name \in FieldNames
    /\ line_no = 1
    /\ value = LocalValueOnEntry
    /\ result = NoResult
    /\ xpc = "for"
    /\ xerr = "none"

\* One iteration of `for line in output_data`.
ScanLine ==
    /\ xpc = "for"
    /\ line_no <= Len(output_data)
    /\ LET match == Search(output_data[line_no], field_name)
       IN  IF match # NoMatch
           THEN IF Float(match.group) = ValueError
                THEN /\ xpc' = "raised"
                     /\ xerr' = "ValueError"
                     /\ UNCHANGED <<value, line_no>>
                ELSE /\ value' = Float(match.group)
                     /\ xpc' = AfterMatch(line_no).xpc
                     /\ line_no' = AfterMatch(line_no).line_no
                     /\ xerr' = xerr
           ELSE /\ line_no' = line_no + 1
                /\ UNCHANGED <<value, xpc, xerr>>
    /\ UNCHANGED <<output_data, field_name, result>>

\* The list is exhausted without a break.
ScanExhausted ==
    /\ xpc = "for"
    /\ line_no > Len(output_data)
    /\ xpc' = "return"
    /\ UNCHANGED <<output_data, field_name, line_no, value, result, xerr>>

\* return value
Return ==
    /\ xpc = "return"
    /\ IF value = Unbound
       THEN xpc' = "raised" /\ xerr' = "UnboundLocalError" /\ result' = result
       ELSE xpc' = "done" /\ result' = value /\ xerr' = xerr
    /\ UNCHANGED <<output_data, field_name, line_no, value>>

GraphIdle ==
    /\ schema = <<>>
    /\ tool_result_dict = <<>>
    /\ G = EmptyGraph
    /\ pc = "idle"
    /\ idx = 0
    /\ err = "none"

NextExtract ==
    \/ ScanLine /\ UNCHANGED <<graphVars, callVars, benchVars>>
    \/ ScanExhausted /\ UNCHANGED <<graphVars, callVars, benchVars>>
    \/ Return /\ UNCHANGED <<graphVars, callVars, benchVars>>

\* The state on entry to the function; Flow A is not involved.
InitFlowB == InitExtract /\ GraphIdle /\ CallIdle /\ BenchIdle

SpecExtract == InitFlowB /\ [][NextExtract]_vars

----------------------------------------------------------------------------
(* Metric extraction: properties *)

Terminated == xpc \in {"done", "raised"}

\* Number texts and the values they denote.
Literals ==
    {[text |-> <<"1", "2", "3", ".", "4", "5">>, val |-> [mant |-> 12345, frac |-> 2]],
     [text |-> <<"9", "9">>, val |-> [mant |-> 99, frac |-> 0]],
     [text |-> <<"9", "9", ".", "0">>, val |-> [mant |-> 99, frac |-> 0]]}

DecimalOf(text) == (CHOOSE l \in Literals : l.text = text).val

Contains(line, sub) ==
    \E p \in 1..(Len(line) - Len(sub) + 1) : SubSeq(line, p, p + Len(sub) - 1) = sub

\* sub occurs in line, and the pattern matches nowhere to the left of it.
LeftmostAt(line, field, sub) ==
    \E p \in 1..(Len(line) - Len(sub) + 1) :
        /\ SubSeq(line, p, p + Len(sub) - 1) = sub
        /\ \A q \in 1..(p - 1) : ~MatchAt(line, field, q)

Matches(line) == Search(line, field_name) # NoMatch

Line12345 == AverageLatency \o <<":", " ", "1", "2", "3", ".", "4", "5", " ", "m", "s">>
Line99 == AverageLatency \o <<":", " ", "9", "9", " ", "m", "s">>

\* "<field name>: <number> "
Metric(field, lit) == field \o <<":", " ">> \o lit.text \o <<" ">>

\* C7 (as claimed): whenever the output contains the line
\* "Average Latency: 123.45 ms" the call for 'Average Latency' returns
\* 123.45, and whenever a line contains "<field name>: <number> " the call
\* returns that number.
C7_AsClaimed ==
    Terminated =>
        /\ (field_name = AverageLatency /\ Line12345 \in Range(output_data))
             => (xpc = "done" /\ result = [mant |-> 12345, frac |-> 2])
        /\ \A k \in 1..Len(output_data), lit \in Literals :
             Contains(output_data[k], Metric(field_name, lit))
               => (xpc = "done" /\ result = lit.val)

\* C7 (amended): the same, for the line that is the first line of the output
\* the pattern matches, and for the leftmost match in it.
C7_FirstMatchReturned ==
    Terminated =>
        \A k \in 1..Len(output_data) :
            (\A j \in 1..(k - 1) : ~Matches(output_data[j]))
              => /\ (field_name = AverageLatency /\ output_data[k] = Line12345)
                      => (xpc = "done" /\ result = [mant |-> 12345, frac |-> 2])
                 /\ \A lit \in Literals :
                      LeftmostAt(output_data[k], field_name, Metric(field_name, lit))
                        => (xpc = "done" /\ result = lit.val)

\* C7 witness: the call returned 123.45 from "Average Latency: 123.45 ms"
\* found after a line that does not match.
C7_Witness ==
    /\ xpc = "done"
    /\ field_name = AverageLatency
    /\ Len(output_data) = 2
    /\ ~Matches(output_data[1])
    /\ output_data[2] = Line12345
    /\ result = [mant |-> 12345, frac |-> 2]

\* C8: the scan never moves past a line that matches, so no line after the
\* first match is examined; a returned result is the number of the line the
\* scan stopped at, which is the first matching line; and once `value` is
\* bound neither it nor the scan position changes.
C8_FirstMatchWins ==
    /\ [](xpc # "idle" =>
            \A k \in 1..Len(output_data) : k < line_no => ~Matches(output_data[k]))
    /\ [](xpc = "done" =>
            /\ line_no \in 1..Len(output_data)
            /\ Matches(output_data[line_no])
            /\ result = DecimalOf(Search(output_data[line_no], field_name).group))
    /\ [][value # Unbound => (value' = value /\ line_no' = line_no)]_vars

\* C8 witness: two matching lines with different numbers; the first one's
\* number was returned.
C8_Witness ==
    /\ xpc = "done"
    /\ field_name = AverageLatency
    /\ output_data = <<Line99, Line12345>>
    /\ result = [mant |-> 99, frac |-> 0]

\* C9: when no line of the output matches, the call ends in an uncaught
\* UnboundLocalError and no value is returned.
C9_NoMatchRaises ==
    (Terminated /\ \A k \in 1..Len(output_data) : ~Matches(output_data[k]))
      => (xpc = "raised" /\ xerr = "UnboundLocalError" /\ result = NoResult)

\* C9 witness: the call raised after scanning two lines, none matching.
C9_Witness ==
    /\ xpc = "raised"
    /\ xerr = "UnboundLocalError"
    /\ Len(output_data) = 2
    /\ line_no = 3
    /\ result = NoResult

\* Every text the pattern finds in the output is a number float accepts.
MatchedTextsWellFormed ==
    \A k \in 1..Len(output_data) :
        Matches(output_data[k])
          => Float(Search(output_data[k], field_name).group) # ValueError

\* C10 (as claimed): when some line contains "<field name>: <number>",
\* whatever follows the number (nothing, in particular), the call returns.
\* Taken on outputs in which no matched text is malformed, so that what
\* fails is the line the claim is about.
C10_AsClaimed ==
    (/\ Terminated
     /\ MatchedTextsWellFormed
     /\ \E k \in 1..Len(output_data), lit \in Literals :
          Contains(output_data[k], field_name \o <<":", " ">> \o lit.text))
      => xpc = "done"

----------------------------------------------------------------------------
(* Flow A: the structured-output request and the two-pass extraction *)

PyNone == [tag |-> "None"]
Unset == [tag |-> "Unset"]

\* An entity record as the remote model may return it: entity_name is not
\* guaranteed (the entity schema declares no required item property).
EntityRecords ==
    {[entity_type |-> "People"]}
      \cup {[entity_name |-> n, entity_type |-> "People"] : n \in EntityNames}

EntityLists == SeqsUpTo(EntityRecords, MaxSchema)

\* The phase-1 result: a dict that carries the list under 'entity', or lacks it.
EntityResults == {[entity |-> l] : l \in EntityLists} \cup {<<>>}

TextBlock == [text |-> "Here is the JSON"]

ToolUseBlock(name, input) == [toolUse |-> [name |-> name, input |-> input]]

\* The content blocks the service may answer with to a request that declares
\* the tools `names`: no toolUse block at all, or one, alone or after a text
\* block.
ResponsesTo(names, inputs) ==
    {<<>>, <<TextBlock>>}
      \cup {<<ToolUseBlock(n, d)>> : n \in names, d \in inputs}
      \cup {<<TextBlock, ToolUseBlock(n, d)>> : n \in names, d \in inputs}

\* tool_list of the entity call
EntityToolList == <<[name |-> "entity_extractor", required |-> <<"entity">>]>>

\* message of the entity call
EntityMessage == [content |-> <<"<content>", "extract the entities">>]

\* The relationship tool declared without an enum for entity_2.
RelationshipToolListOneEnum(names) ==
    <<[name |-> "relationship_extractor", required |-> <<"edge">>,
       enum_1 |-> names]>>

\* The relationship tool declared without enums when there is no name.
RelationshipToolListNoEmptyEnum(names) ==
    IF names = <<>>
    THEN <<[name |-> "relationship_extractor", required |-> <<"edge">>]>>
    ELSE <<[name |-> "relationship_extractor", required |-> <<"edge">>,
            enum_1 |-> names, enum_2 |-> names]>>

\* tool_list of the relationship call: "enum": schema for entity_1 and for
\* entity_2.
RelationshipToolList(names) ==
    <<[name |-> "relationship_extractor", required |-> <<"edge">>,
       enum_1 |-> names, enum_2 |-> names]>>

\* repr of a str, character by character
Repr(name) == <<"'", name, "'">>

RECURSIVE JoinRepr(_)
JoinRepr(names) ==
    IF names = <<>> THEN <<>>
    ELSE IF Len(names) = 1 THEN Repr(names[1])
    ELSE Repr(names[1]) \o <<",", " ">> \o JoinRepr(Tail(names))

\* str(schema), as the f-string puts it into the prompt
Serialize(names) == <<"[">> \o JoinRepr(names) \o <<"]">>

\* message of the relationship call
RelationshipMessage(names) ==
    [content |-> <<"<content>", "extract the relationships">>,
     entities |-> Serialize(names)]

ToolNames(tools) == {tools[k].name : k \in DOMAIN tools}

\* next(..., default) with a default block carrying an empty mapping.
SelectBlockOrEmpty(blocks) ==
    LET P == {k \in DOMAIN blocks : "toolUse" \in DOMAIN blocks[k]}
    IN  IF P = {} THEN ToolUseBlock("none", <<>>) ELSE blocks[Min(P)]

\* The last block with a toolUse entry instead of the first.
SelectBlockLast(blocks) ==
    LET P == {k \in DOMAIN blocks : "toolUse" \in DOMAIN blocks[k]}
    IN  IF P = {} THEN PyNone ELSE blocks[Max(P)]

\* next((block for block in response_content_blocks if 'toolUse' in block), None)
SelectBlock(blocks) ==
    LET P == {k \in DOMAIN blocks : "toolUse" \in DOMAIN blocks[k]}
    IN  IF P = {} THEN PyNone ELSE blocks[Min(P)]

\* The step starts over after an exception.
RetryAfterError(at) == at

\* try/finally around the session: an exception leads to the cleanup cell.
CleanupAfterError(at) == "delete"

\* An exception nothing catches ends the cell, and the run of the notebook.
AfterError(at) == "failed"

\* entity.get('entity_name', '')
EntityNameOrBlank(entity) ==
    IF "entity_name" \in DOMAIN entity
    THEN [ok |-> TRUE, v |-> entity["entity_name"]]
    ELSE [ok |-> TRUE, v |-> ""]

\* entity['entity_name']
EntityNameOf(entity) ==
    IF "entity_name" \in DOMAIN entity
    THEN [ok |-> TRUE, v |-> entity["entity_name"]]
    ELSE [ok |-> FALSE]

InitTwoPass ==
    /\ schema = <<>>
    /\ tool_result_dict = <<>>
    /\ G = EmptyGraph
    /\ pc = "phase1"
    /\ idx = 0
    /\ err = "none"
    /\ response = <<>>
    /\ tool_use_block = Unset
    /\ tool_list = EntityToolList
    /\ message = EntityMessage
    /\ calls = <<>>
    /\ inflight = 0

\* bedrock_client.converse(...) is entered: the request leaves.
Submit(at, waiting) ==
    /\ pc = at
    /\ calls' = Append(calls, [tools |-> tool_list, message |-> message])
    /\ inflight' = inflight + 1
    /\ pc' = waiting
    /\ UNCHANGED <<schema, tool_result_dict, G, idx, err,
                   response, tool_use_block, tool_list, message>>

\* converse returns a response and the rest of the cell picks the toolUse
\* block out of it.
ReceiveFrom(at, waiting, responses, next) ==
    /\ pc = waiting
    /\ inflight' = inflight - 1
    /\ \E blocks \in responses :
         /\ response' = blocks
         /\ LET content_block == SelectBlock(blocks)
            IN  IF content_block = PyNone
                THEN \* None['toolUse']
                     /\ pc' = AfterError(at)
                     /\ err' = "TypeError"
                     /\ UNCHANGED <<tool_use_block, tool_result_dict>>
                ELSE /\ tool_use_block' = content_block.toolUse
                     /\ tool_result_dict' = content_block.toolUse.input
                     /\ pc' = next
                     /\ err' = err
    /\ UNCHANGED <<schema, G, idx, tool_list, message, calls>>

\* The call cells of the two-pass extraction.
Receive(at, waiting, inputs, next) ==
    ReceiveFrom(at, waiting, ResponsesTo(ToolNames(tool_list), inputs), next)

\* converse raises (the service refuses or cannot be reached).
ReceiveError(at, waiting) ==
    /\ pc = waiting
    /\ inflight' = inflight - 1
    /\ pc' = AfterError(at)
    /\ err' = "ClientError"
    /\ UNCHANGED <<schema, tool_result_dict, G, idx,
                   response, tool_use_block, tool_list, message, calls>>

EntitySubmit == Submit("phase1", "await1")
EntityReceive == Receive("phase1", "await1", EntityResults, "schema")
EntityError == ReceiveError("phase1", "await1")

\* schema = []; for entity in tool_result_dict['entity']: on entry
SchemaInit ==
    /\ pc = "schema"
    /\ schema' = <<>>
    /\ IF "entity" \in DOMAIN tool_result_dict
       THEN pc' = "collect" /\ idx' = 1 /\ err' = err
       ELSE pc' = AfterError("schema") /\ err' = "KeyError" /\ idx' = idx
    /\ UNCHANGED <<tool_result_dict, G, callVars>>

\* schema.append(entity['entity_name'])
CollectName ==
    /\ pc = "collect"
    /\ idx <= Len(tool_result_dict.entity)
    /\ LET name == EntityNameOf(tool_result_dict.entity[idx])
       IN  IF name.ok
           THEN /\ schema' = Append(schema, name.v)
                /\ idx' = idx + 1
                /\ UNCHANGED <<pc, err>>
           ELSE /\ pc' = AfterError("schema")
                /\ err' = "KeyError"
                /\ UNCHANGED <<schema, idx>>
    /\ UNCHANGED <<tool_result_dict, G, callVars>>

CollectDone ==
    /\ pc = "collect"
    /\ idx > Len(tool_result_dict.entity)
    /\ pc' = "tool_list"
    /\ UNCHANGED <<schema, tool_result_dict, G, idx, err, callVars>>

\* the relationship tool_list cell
DefineRelationshipTools ==
    /\ pc = "tool_list"
    /\ tool_list' = RelationshipToolList(schema)
    /\ pc' = "message"
    /\ UNCHANGED <<schema, tool_result_dict, G, idx, err,
                   response, tool_use_block, message, calls, inflight>>

\* the relationship message cell
DefineRelationshipMessage ==
    /\ pc = "message"
    /\ message' = RelationshipMessage(schema)
    /\ pc' = "phase2"
    /\ UNCHANGED <<schema, tool_result_dict, G, idx, err,
                   response, tool_use_block, tool_list, calls, inflight>>

RelationshipSubmit == Submit("phase2", "await2")
RelationshipReceive == Receive("phase2", "await2", ToolResults, "seed")
RelationshipError == ReceiveError("phase2", "await2")

NextTwoPass ==
    \/ EntitySubmit /\ UNCHANGED <<extractVars, benchVars>>
    \/ EntityReceive /\ UNCHANGED <<extractVars, benchVars>>
    \/ EntityError /\ UNCHANGED <<extractVars, benchVars>>
    \/ SchemaInit /\ UNCHANGED <<extractVars, benchVars>>
    \/ CollectName /\ UNCHANGED <<extractVars, benchVars>>
    \/ CollectDone /\ UNCHANGED <<extractVars, benchVars>>
    \/ DefineRelationshipTools /\ UNCHANGED <<extractVars, benchVars>>
    \/ DefineRelationshipMessage /\ UNCHANGED <<extractVars, benchVars>>
    \/ RelationshipSubmit /\ UNCHANGED <<extractVars, benchVars>>
    \/ RelationshipReceive /\ UNCHANGED <<extractVars, benchVars>>
    \/ RelationshipError /\ UNCHANGED <<extractVars, benchVars>>
    \/ SeedGraph /\ UNCHANGED <<extractVars, callVars, benchVars>>
    \/ ForEnter /\ UNCHANGED <<extractVars, callVars, benchVars>>
    \/ ProcessRelationship /\ UNCHANGED <<extractVars, callVars, benchVars>>
    \/ ForExit /\ UNCHANGED <<extractVars, callVars, benchVars>>

\* The state before the entity call cell runs.
InitFlowATwoPass == InitTwoPass /\ ExtractIdle /\ BenchIdle

SpecTwoPass == InitFlowATwoPass /\ [][NextTwoPass]_vars

----------------------------------------------------------------------------
(* Properties of the structured-output request and the two-pass extraction *)

Awaiting == {"await1", "await2"}

NoToolUse(blocks) ==
    \A k \in DOMAIN blocks : "toolUse" \notin DOMAIN blocks[k]

\* converse returned normally in this step
Returned == pc \in Awaiting /\ pc' # pc /\ err' # "ClientError"

\* C11: when the content blocks of a response hold no toolUse block, the cell
\* ends with an uncaught TypeError on the access to the block; the call
\* assigns neither tool_use_block nor tool_result_dict, and no cell runs
\* after the failure.
C11_NoToolUseFails ==
    [][/\ (Returned /\ NoToolUse(response'))
            => /\ pc' = "failed" /\ err' = "TypeError"
               /\ tool_use_block' = tool_use_block
               /\ tool_result_dict' = tool_result_dict
       /\ pc = "failed" => UNCHANGED vars]_vars

\* C11 witness: the relationship call was answered with a text block only,
\* after the entity call had delivered a result.
C11_Witness ==
    /\ pc = "failed" /\ err = "TypeError"
    /\ Len(calls) = 2
    /\ response = <<TextBlock>>
    /\ "entity" \in DOMAIN tool_result_dict

\* The cells of the two-pass extraction in the order the notebook runs them.
Order ==
    <<"phase1", "await1", "schema", "collect", "tool_list", "message",
      "phase2", "await2", "seed", "for", "loop", "done", "failed">>

Pos(p) == CHOOSE i \in DOMAIN Order : Order[i] = p

\* The names read back from the text str(list) gives: the element between
\* each pair of quotes.
Deserialize(text) == [k \in 1..(Len(text) \div 5) |-> text[5 * k - 2]]

RelationshipRequested == Len(calls) >= 2

\* C12: the control never moves back to an earlier cell, so the entity phase
\* is not re-entered; after the accumulation cell nothing changes schema; the
\* relationship request, once submitted, carries schema as the enum of
\* entity_1 and of entity_2 and serialized in its prompt; and the graph is
\* seeded with exactly the names of schema.
C12_TwoPhasesOneVocabulary ==
    [][/\ Pos(pc') >= Pos(pc)
       /\ Len(calls') <= 2
       /\ pc \notin {"schema", "collect"} => schema' = schema
       /\ RelationshipRequested' =>
            /\ Pos(pc') > Pos("phase2")
            /\ ToolNames(calls'[1].tools) = {"entity_extractor"}
            /\ ToolNames(calls'[2].tools) = {"relationship_extractor"}
            /\ "enum_1" \in DOMAIN calls'[2].tools[1]
            /\ "enum_2" \in DOMAIN calls'[2].tools[1]
            /\ calls'[2].tools[1].enum_1 = schema'
            /\ calls'[2].tools[1].enum_2 = schema'
            /\ Deserialize(calls'[2].message.entities) = schema'
       /\ pc = "seed" =>
            /\ G'.node = Range(schema')
            /\ \A n \in G'.node : Degree(G', n) = 0
       /\ G.node \subseteq G'.node]_vars

\* C12 witness: both phases ran, the vocabulary has two distinct names, the
\* relationship request carried it and the graph holds an edge between them.
C12_Witness ==
    /\ pc = "done"
    /\ schema = <<"A", "B">>
    /\ calls[2].tools[1].enum_2 = schema
    /\ Deserialize(calls[2].message.entities) = schema
    /\ HasEdge(G, "A", "B")

\* The relationship request is out and the entity result is still the value
\* of tool_result_dict.
VocabularyHandedOver == pc = "await2"

EntityArray == tool_result_dict.entity

\* C13: the vocabulary the relationship request carries is the set of the
\* entity_name values of the entity array: every record's name is in it,
\* nothing else is, and a name that several records carry is in it once.
C13_AsClaimed ==
    VocabularyHandedOver =>
        LET vocabulary == calls[2].tools[1].enum_1
        IN  /\ \A k \in DOMAIN EntityArray :
                 EntityArray[k].entity_name \in Range(vocabulary)
            /\ \A n \in Range(vocabulary) :
                 \E k \in DOMAIN EntityArray : EntityArray[k].entity_name = n
            /\ \A i, j \in DOMAIN vocabulary :
                 vocabulary[i] = vocabulary[j] => i = j

EmptyVocabulary == schema = <<>>

\* C14: an empty entity array leaves schema empty and the flow goes on as for
\* any other vocabulary: the relationship tool is declared with an empty enum
\* for entity_1 and entity_2, the request is submitted, and the graph is
\* seeded with no node; no step in between stops or raises.
C14_EmptyVocabularyFlowsOn ==
    [][/\ (pc = "collect" /\ EntityArray = <<>>)
            => (pc' = "tool_list" /\ EmptyVocabulary' /\ err' = "none")
       /\ (pc = "tool_list" /\ EmptyVocabulary)
            => /\ EntityArray = <<>>
               /\ pc' = "message" /\ err' = "none"
               /\ "enum_1" \in DOMAIN tool_list'[1]
               /\ "enum_2" \in DOMAIN tool_list'[1]
               /\ tool_list'[1].enum_1 = <<>>
               /\ tool_list'[1].enum_2 = <<>>
       /\ (pc = "message" /\ EmptyVocabulary)
            => (pc' = "phase2" /\ err' = "none")
       /\ (pc = "phase2" /\ EmptyVocabulary)
            => /\ pc' = "await2"
               /\ Len(calls') = 2
               /\ calls'[2].tools = tool_list
               /\ calls'[2].tools[1].enum_1 = <<>>
               /\ calls'[2].tools[1].enum_2 = <<>>
       /\ (pc = "seed" /\ EmptyVocabulary)
            => (pc' = "for" /\ G'.node = {})]_vars

\* C14 witness: the entity array was empty, the relationship request went
\* out with empty enums and the graph was seeded with no node.
C14_Witness ==
    /\ pc = "for"
    /\ EmptyVocabulary
    /\ Len(calls) = 2
    /\ calls[2].tools[1].enum_1 = <<>>
    /\ calls[2].tools[1].enum_2 = <<>>
    /\ G.node = {}

\* C15: a result that lacks an expected field ends the cell that reads it with
\* a KeyError and nothing runs afterwards: vocabulary building fails when the
\* entity result has no 'entity' or the record at hand has no 'entity_name'
\* (no name is appended for it), and graph assembly fails, without adding an
\* edge, when the relationship result has no 'edge'.
C15_MissingFieldFatal ==
    [][/\ (pc = "schema" /\ "entity" \notin DOMAIN tool_result_dict)
            => (pc' = "failed" /\ err' = "KeyError" /\ schema' = <<>>)
       /\ (/\ pc = "collect"
           /\ idx <= Len(EntityArray)
           /\ "entity_name" \notin DOMAIN EntityArray[idx])
            => (pc' = "failed" /\ err' = "KeyError" /\ schema' = schema)
       /\ (pc = "for" /\ "edge" \notin DOMAIN tool_result_dict)
            => (pc' = "failed" /\ err' = "KeyError" /\ G' = G)
       /\ pc = "failed" => UNCHANGED vars]_vars

\* C15 witness: the second entity record had no entity_name; the first one's
\* name had been appended, and the relationship request was never made.
C15_Witness ==
    /\ pc = "failed" /\ err = "KeyError"
    /\ schema = <<"A">>
    /\ Len(EntityArray) = 2
    /\ "entity_name" \notin DOMAIN EntityArray[2]
    /\ Len(calls) = 1

----------------------------------------------------------------------------
(* Flow B: deployment, benchmark runs and cleanup *)

\* The four deploy cells: endpoint name and instance type, in notebook order.
Predictors ==
    <<[endpoint_name |-> "pixtral12b-on-ml-g5-12xlarge",
       instance_type |-> "ml.g5.12xlarge"],
      [endpoint_name |-> "pixtral12b-on-ml-g5-24xlarge",
       instance_type |-> "ml.g5.24xlarge"],
      [endpoint_name |-> "pixtral12b-on-ml-g5-48xlarge",
       instance_type |-> "ml.g5.48xlarge"],
      [endpoint_name |-> "pixtral12b-on-ml-p4d-24xlarge",
       instance_type |-> "ml.p4d.24xlarge"]>>

NumCells == Len(Predictors)

\* d[k] = v
SetItem(d, k, v) == [x \in DOMAIN d \cup {k} |-> IF x = k THEN v ELSE d[x]]

\* del d[k]
DelItem(d, k) == [x \in DOMAIN d \ {k} |-> d[x]]

\* os.environ.get(k)
Getenv(k) == IF k \in DOMAIN environ THEN environ[k] ELSE PyNone

\* The URL string without the f prefix: the braces stay as text.
UrlLiteral(name) ==
    <<"https://runtime.sagemaker.", "{region}", ".amazonaws.com/endpoints/",
      "{endpoint_name}", "/invocations">>

\* endpoint_url of run_benchmark
Url(name) ==
    <<"https://runtime.sagemaker.", "region", ".amazonaws.com/endpoints/",
      name, "/invocations">>

\* The object sts_client._get_credentials() gives on the k-th call.
CredentialObject(k) ==
    [access_key |-> [object |-> k, attr |-> "access_key"],
     secret_key |-> [object |-> k, attr |-> "secret_key"],
     token |-> [object |-> k, attr |-> "token"]]

\* set_credentials without the session token.
ExportKeysOnly(env, c) ==
    SetItem(SetItem(env, "AWS_ACCESS_KEY_ID", c.access_key),
            "AWS_SECRET_ACCESS_KEY", c.secret_key)

\* The three assignments to os.environ of set_credentials.
Export(env, c) ==
    SetItem(SetItem(SetItem(env, "AWS_ACCESS_KEY_ID", c.access_key),
                    "AWS_SECRET_ACCESS_KEY", c.secret_key),
            "AWS_SESSION_TOKEN", c.token)

\* A concurrency that grows from one run cell to the next.
ConcurrencyByCell == 5 * cell

\* -c 5 -N 50 --connect-timeout 120 --dataset Pixtral_benchmarking_data
Concurrency == 5
ConnectTimeout == 120
Requests == 50
Dataset == "Pixtral_benchmarking_data"

\* What the load tool is started with: its arguments and, from the
\* environment, the URL and the credential triple.
AwscurlInvocation ==
    [op |-> "awscurl",
     url |-> Getenv("ENDPOINT_URL"),
     access_key |-> Getenv("AWS_ACCESS_KEY_ID"),
     secret_key |-> Getenv("AWS_SECRET_ACCESS_KEY"),
     token |-> Getenv("AWS_SESSION_TOKEN"),
     concurrency |-> Concurrency,
     requests |-> Requests,
     connect_timeout |-> ConnectTimeout,
     dataset |-> Dataset,
     files |-> dataset_files]

LatencyLine(number) ==
    AverageLatency \o <<":", " ">> \o number \o <<" ", "m", "s">>

ThroughputLine == TPS \o <<":", " ", "9", "9", "/", "s">>

ForbiddenLine == <<"F", "o", "r", "b", "i", "d", "d", "e", "n">>

\* Lines the load tool may print: a report with the latency line, or only an
\* error of the service.
BenchOutputs ==
    {<<ThroughputLine, LatencyLine(<<"1", "2", "3", ".", "4", "5">>)>>,
     <<LatencyLine(<<"9", "9">>)>>,
     <<ForbiddenLine>>}

\* list.insert(0, record)
PrependRecord(results, record) == <<record>> \o results

\* benchmark_results.append(record)
AppendRecord(results, record) == Append(results, record)

\* The four prepare_prompt_file calls of the dataset cell.
PromptFiles ==
    <<[file_name |-> "prompt1.json",
       prompt |-> "extract product information from the image",
       image_path |-> "Pixtral_data/cleaner.jpg"],
      [file_name |-> "prompt2.json",
       prompt |-> "Analyze the image and transcribe any handwritten text present.",
       image_path |-> "Pixtral_data/a01-082u-01.png"],
      [file_name |-> "prompt3.json",
       prompt |-> "As an interior designer, provide your comments on the aesthetics",
       image_path |-> "Pixtral_data/dresser.jpg"],
      [file_name |-> "prompt4.json",
       prompt |-> "for an e-commerce catalog, generate product description for the product in the image",
       image_path |-> "Pixtral_data/luggage.jpg"]>>

\* read_and_encode_image: a data URL around the base64 text of the file.
ReadAndEncodeImage(image_path) ==
    <<"data:", [mimetype_of |-> image_path], ";base64,",
      [base64_of |-> image_path]>>

\* The payload prepare_prompt_file dumps: one text part, one image part.
Payload(prompt, image_path) ==
    [messages |->
       <<[role |-> "user",
          content |-> <<[type |-> "text", text |-> prompt],
                        [type |-> "image_url",
                         url |-> ReadAndEncodeImage(image_path)]>>]>>,
     max_tokens |-> 2000,
     temperature |-> "0.1",
     top_p |-> "0.9"]

\* The directory after the first n prepare_prompt_file calls.
RECURSIVE FilesAfter(_)
FilesAfter(n) ==
    IF n = 0 THEN <<>>
    ELSE SetItem(FilesAfter(n - 1), PromptFiles[n].file_name,
                 Payload(PromptFiles[n].prompt, PromptFiles[n].image_path))

\* The dataset cell: four payload files are written.
PrepareDataset ==
    /\ pc = "dataset"
    /\ dataset_files' = FilesAfter(Len(PromptFiles))
    /\ pc' = "deploy"
    /\ UNCHANGED <<cell, endpoints, model, environ, credentials,
                   endpoint_name, output, instance_type, avg_latency,
                   benchmark_results, err, callVars>>

\* An image cannot be read: the files written before it stay.
PrepareDatasetError ==
    /\ pc = "dataset"
    /\ \E n \in 0..(Len(PromptFiles) - 1) : dataset_files' = FilesAfter(n)
    /\ pc' = AfterError("dataset")
    /\ err' = "FileNotFoundError"
    /\ UNCHANGED <<cell, endpoints, model, environ, credentials,
                   endpoint_name, output, instance_type, avg_latency,
                   benchmark_results, callVars>>

InitBench ==
    /\ pc = "dataset"
    /\ dataset_files = <<>>
    /\ cell = 1
    /\ endpoints = <<>>
    /\ model = "defined"
    /\ environ = <<>>
    /\ credentials = 0
    /\ endpoint_name = ""
    /\ output = <<>>
    /\ instance_type = ""
    /\ avg_latency = Unset
    /\ benchmark_results = <<>>
    /\ schema = <<>>
    /\ tool_result_dict = <<>>
    /\ G = EmptyGraph
    /\ idx = 0
    /\ err = "none"

\* A call to a remote service or tool is entered.
RemoteCall(at, waiting, request) ==
    /\ pc = at
    /\ calls' = Append(calls, request)
    /\ inflight' = inflight + 1
    /\ pc' = waiting
    /\ UNCHANGED <<response, tool_use_block, tool_list, message>>

\* The call returns or raises.
RemoteReturn(waiting) ==
    /\ pc = waiting
    /\ inflight' = inflight - 1
    /\ UNCHANGED <<response, tool_use_block, tool_list, message, calls>>

\* endpoint_name = '...'; model.deploy(...) entered
DeploySubmit ==
    /\ RemoteCall("deploy", "deploying",
                  [op |-> "deploy",
                   endpoint_name |-> Predictors[cell].endpoint_name,
                   instance_type |-> Predictors[cell].instance_type])
    /\ endpoint_name' = Predictors[cell].endpoint_name
    /\ UNCHANGED <<cell, endpoints, model, environ, credentials, output,
                   instance_type, avg_latency, benchmark_results, err>>

\* model.deploy returns the predictor of the new endpoint
DeployReturn ==
    /\ RemoteReturn("deploying")
    /\ endpoints' = SetItem(endpoints, endpoint_name,
                            [instance_type |-> Predictors[cell].instance_type,
                             status |-> "InService"])
    /\ model' = "created"
    /\ IF cell < NumCells
       THEN cell' = cell + 1 /\ pc' = "deploy"
       ELSE cell' = 1 /\ pc' = "results"
    /\ UNCHANGED <<environ, credentials, endpoint_name, output,
                   instance_type, avg_latency, benchmark_results, err>>

\* model.deploy raises; the endpoint may exist, in Failed status.
DeployError ==
    /\ RemoteReturn("deploying")
    /\ pc' = AfterError("deploy")
    /\ err' = "DeployError"
    /\ \/ UNCHANGED endpoints
       \/ endpoints' = SetItem(endpoints, endpoint_name,
                               [instance_type |-> Predictors[cell].instance_type,
                                status |-> "Failed"])
    /\ UNCHANGED <<cell, model, environ, credentials, endpoint_name, output,
                   instance_type, avg_latency, benchmark_results>>

\* benchmark_results = []
ResultsInit ==
    /\ pc = "results"
    /\ benchmark_results' = <<>>
    /\ pc' = "run"
    /\ UNCHANGED <<cell, endpoints, model, environ, credentials,
                   endpoint_name, output, instance_type, avg_latency, err,
                   callVars>>

\* endpoint_name = predictor.endpoint_name; run_benchmark entered: the URL is
\* put into the environment.
RunBenchmarkEnter ==
    /\ pc = "run"
    /\ endpoint_name' = Predictors[cell].endpoint_name
    /\ environ' = SetItem(environ, "ENDPOINT_URL",
                          Url(Predictors[cell].endpoint_name))
    /\ pc' = "credentials"
    /\ UNCHANGED <<cell, endpoints, model, credentials, output,
                   instance_type, avg_latency, benchmark_results, err,
                   callVars>>

\* set_credentials()
SetCredentials ==
    /\ pc = "credentials"
    /\ credentials' = credentials + 1
    /\ environ' = Export(environ, CredentialObject(credentials + 1))
    /\ pc' = "awscurl"
    /\ UNCHANGED <<cell, endpoints, model, endpoint_name, output,
                   instance_type, avg_latency, benchmark_results, err,
                   callVars>>

\* set_credentials() raises: the session has no credentials to hand out.
SetCredentialsError ==
    /\ pc = "credentials"
    /\ pc' = AfterError("run")
    /\ err' = "AttributeError"
    /\ UNCHANGED <<cell, endpoints, model, environ, credentials,
                   endpoint_name, output, instance_type, avg_latency,
                   benchmark_results, callVars>>

\* `!cmd &`: the cell goes on while the tool runs.
LaunchDetached(waiting, next) == next

\* `output = !cmd` waits for the command to end.
AfterLaunch(waiting, next) == waiting

\* output = !./awscurl ... : the load tool is started
AwscurlStart ==
    /\ RemoteCall("awscurl", AfterLaunch("awscurling", "describe"),
                  AwscurlInvocation)
    /\ UNCHANGED <<cell, endpoints, model, environ, credentials,
                   endpoint_name, output, instance_type, avg_latency,
                   benchmark_results, err>>

\* The load tool ends; whatever it printed is captured, its exit status is
\* not looked at.
AwscurlEnd ==
    /\ RemoteReturn("awscurling")
    /\ output' \in BenchOutputs
    /\ pc' = "describe"
    /\ UNCHANGED <<cell, endpoints, model, environ, credentials,
                   endpoint_name, instance_type, avg_latency,
                   benchmark_results, err>>

\* get_instance_type_from_endpoint_name(endpoint_name) entered
DescribeSubmit ==
    /\ RemoteCall("describe", "describing",
                  [op |-> "describe_endpoint", endpoint_name |-> endpoint_name])
    /\ UNCHANGED <<cell, endpoints, model, environ, credentials,
                   endpoint_name, output, instance_type, avg_latency,
                   benchmark_results, err>>

\* It returns the instance type of the endpoint's first production variant.
DescribeReturn ==
    /\ RemoteReturn("describing")
    /\ endpoint_name \in DOMAIN endpoints
    /\ instance_type' = endpoints[endpoint_name].instance_type
    /\ pc' = "extract"
    /\ UNCHANGED <<cell, endpoints, model, environ, credentials,
                   endpoint_name, output, avg_latency, benchmark_results,
                   err>>

\* describe_endpoint or describe_endpoint_config raises
DescribeError ==
    /\ RemoteReturn("describing")
    /\ pc' = AfterError("run")
    /\ err' = "ClientError"
    /\ UNCHANGED <<cell, endpoints, model, environ, credentials,
                   endpoint_name, output, instance_type, avg_latency,
                   benchmark_results>>

\* extract_values_from_benchmark_output(output, 'Average Latency') entered
ExtractCall ==
    /\ pc = "extract"
    /\ output_data' = output
    /\ field_name' = AverageLatency
    /\ line_no' = 1
    /\ value' = LocalValueOnEntry
    /\ result' = NoResult
    /\ xpc' = "for"
    /\ xerr' = "none"
    /\ pc' = "extracting"
    /\ UNCHANGED <<err, benchVars, callVars>>

\* avg_latency = the value the function returned
ExtractReturn ==
    /\ pc = "extracting"
    /\ xpc = "done"
    /\ avg_latency' = result
    /\ pc' = "append"
    /\ UNCHANGED <<cell, endpoints, model, environ, credentials,
                   endpoint_name, output, instance_type, benchmark_results,
                   err, callVars, extractVars>>

\* The function raised: the run cell ends there.
ExtractRaise ==
    /\ pc = "extracting"
    /\ xpc = "raised"
    /\ pc' = AfterError("run")
    /\ err' = xerr
    /\ UNCHANGED <<benchVars, callVars, extractVars>>

\* benchmark_results.append({'InstanceType': ..., 'AverageLatency': ...})
AppendResult ==
    /\ pc = "append"
    /\ benchmark_results' =
         AppendRecord(benchmark_results,
                      [InstanceType |-> instance_type,
                       AverageLatency |-> avg_latency])
    /\ IF cell < NumCells
       THEN cell' = cell + 1 /\ pc' = "run"
       ELSE cell' = 1 /\ pc' = "display"
    /\ UNCHANGED <<endpoints, model, environ, credentials, endpoint_name,
                   output, instance_type, avg_latency, err, callVars>>

\* display_results(benchmark_results)
DisplayResults ==
    /\ pc = "display"
    /\ pc' = "delete"
    /\ UNCHANGED <<err, benchVars, callVars>>

\* The cleanup cell deleting the first endpoint in each of its four lines.
CleanupTargetFirst(n) == Predictors[1].endpoint_name

\* The endpoint of the predictor the n-th line of the cleanup cell names.
CleanupTarget(n) == Predictors[n].endpoint_name

\* predictor.delete_endpoint() entered
DeleteEndpointSubmit ==
    /\ RemoteCall("delete", "deleting",
                  [op |-> "delete_endpoint",
                   endpoint_name |-> CleanupTarget(cell)])
    /\ UNCHANGED <<err, benchVars>>

DeleteEndpointReturn ==
    /\ RemoteReturn("deleting")
    /\ endpoints' = DelItem(endpoints, CleanupTarget(cell))
    /\ IF cell < NumCells
       THEN cell' = cell + 1 /\ pc' = "delete"
       ELSE cell' = cell /\ pc' = "delete_model"
    /\ UNCHANGED <<model, environ, credentials, endpoint_name, output,
                   instance_type, avg_latency, benchmark_results, err>>

DeleteEndpointError ==
    /\ RemoteReturn("deleting")
    /\ pc' = AfterError("delete")
    /\ err' = "ClientError"
    /\ UNCHANGED benchVars

\* model.delete_model() entered
DeleteModelSubmit ==
    /\ RemoteCall("delete_model", "deleting_model", [op |-> "delete_model"])
    /\ UNCHANGED <<err, benchVars>>

DeleteModelReturn ==
    /\ RemoteReturn("deleting_model")
    /\ model' = "deleted"
    /\ pc' = "done"
    /\ UNCHANGED <<cell, endpoints, environ, credentials, endpoint_name,
                   output, instance_type, avg_latency, benchmark_results, err>>

DeleteModelError ==
    /\ RemoteReturn("deleting_model")
    /\ pc' = AfterError("delete_model")
    /\ err' = "ClientError"
    /\ UNCHANGED benchVars

twoPassOnly == <<schema, tool_result_dict, G, idx>>

NextBench ==
    \/ PrepareDataset /\ UNCHANGED <<twoPassOnly, extractVars>>
    \/ PrepareDatasetError /\ UNCHANGED <<twoPassOnly, extractVars>>
    \/ DeploySubmit /\ UNCHANGED <<twoPassOnly, extractVars, dataset_files>>
    \/ DeployReturn /\ UNCHANGED <<twoPassOnly, extractVars, dataset_files>>
    \/ DeployError /\ UNCHANGED <<twoPassOnly, extractVars, dataset_files>>
    \/ ResultsInit /\ UNCHANGED <<twoPassOnly, extractVars, dataset_files>>
    \/ RunBenchmarkEnter /\ UNCHANGED <<twoPassOnly, extractVars, dataset_files>>
    \/ SetCredentials /\ UNCHANGED <<twoPassOnly, extractVars, dataset_files>>
    \/ SetCredentialsError /\ UNCHANGED <<twoPassOnly, extractVars, dataset_files>>
    \/ AwscurlStart /\ UNCHANGED <<twoPassOnly, extractVars, dataset_files>>
    \/ AwscurlEnd /\ UNCHANGED <<twoPassOnly, extractVars, dataset_files>>
    \/ DescribeSubmit /\ UNCHANGED <<twoPassOnly, extractVars, dataset_files>>
    \/ DescribeReturn /\ UNCHANGED <<twoPassOnly, extractVars, dataset_files>>
    \/ DescribeError /\ UNCHANGED <<twoPassOnly, extractVars, dataset_files>>
    \/ ExtractCall /\ UNCHANGED <<twoPassOnly, dataset_files>>
    \/ ScanLine /\ UNCHANGED <<graphVars, callVars, benchVars>>
    \/ ScanExhausted /\ UNCHANGED <<graphVars, callVars, benchVars>>
    \/ Return /\ UNCHANGED <<graphVars, callVars, benchVars>>
    \/ ExtractReturn /\ UNCHANGED <<twoPassOnly, dataset_files>>
    \/ ExtractRaise /\ UNCHANGED <<twoPassOnly, dataset_files>>
    \/ AppendResult /\ UNCHANGED <<twoPassOnly, extractVars, dataset_files>>
    \/ DisplayResults /\ UNCHANGED <<twoPassOnly, extractVars, dataset_files>>
    \/ DeleteEndpointSubmit /\ UNCHANGED <<twoPassOnly, extractVars, dataset_files>>
    \/ DeleteEndpointReturn /\ UNCHANGED <<twoPassOnly, extractVars, dataset_files>>
    \/ DeleteEndpointError /\ UNCHANGED <<twoPassOnly, extractVars, dataset_files>>
    \/ DeleteModelSubmit /\ UNCHANGED <<twoPassOnly, extractVars, dataset_files>>
    \/ DeleteModelReturn /\ UNCHANGED <<twoPassOnly, extractVars, dataset_files>>
    \/ DeleteModelError /\ UNCHANGED <<twoPassOnly, extractVars, dataset_files>>

\* The state before the first deploy cell runs.
InitFlowBBench == InitBench /\ ExtractIdle /\ CallIdle

SpecBench == InitFlowBBench /\ [][NextBench]_vars

----------------------------------------------------------------------------
(* Properties of the benchmark flow *)

RunPcs ==
    {"run", "credentials", "awscurl", "awscurling", "describe", "describing",
     "extract", "extracting", "append"}

AfterRuns ==
    {"display", "delete", "deleting", "delete_model", "deleting_model", "done"}

\* The number the report in `out` gives for the average latency.
ReportedLatency(out) ==
    (CHOOSE l \in Literals :
        \E k \in DOMAIN out : Contains(out[k], Metric(AverageLatency, l))).val

\* C16: the results list grows by exactly one record at the end of each run
\* cell and changes at no other step: the record goes to the end of the list,
\* holds the instance type of the endpoint of that cell and the latency the
\* run's output reports; so during the k-th run cell the list has k - 1
\* records, after the last one it has one per endpoint, and the i-th record
\* is that of the i-th endpoint.
C16_OneRecordPerRun ==
    [][/\ pc = "append" =>
            /\ Len(benchmark_results') = Len(benchmark_results) + 1
            /\ SubSeq(benchmark_results', 1, Len(benchmark_results))
                 = benchmark_results
            /\ benchmark_results'[Len(benchmark_results')]
                 = [InstanceType |-> Predictors[cell].instance_type,
                    AverageLatency |-> ReportedLatency(output)]
       /\ pc # "append" => benchmark_results' = benchmark_results
       /\ pc \in RunPcs => Len(benchmark_results) = cell - 1
       /\ pc \in AfterRuns => Len(benchmark_results) = NumCells
       /\ \A i \in DOMAIN benchmark_results :
            benchmark_results[i].InstanceType = Predictors[i].instance_type]_vars

\* C16 witness: four runs completed; the first reported 123.45, the second
\* 99, and the records stand in the order of the runs.
C16_Witness ==
    /\ pc = "display"
    /\ Len(benchmark_results) = 4
    /\ benchmark_results[1] = [InstanceType |-> "ml.g5.12xlarge",
                               AverageLatency |-> [mant |-> 12345, frac |-> 2]]
    /\ benchmark_results[2] = [InstanceType |-> "ml.g5.24xlarge",
                               AverageLatency |-> [mant |-> 99, frac |-> 0]]
    /\ benchmark_results[4].InstanceType = "ml.p4d.24xlarge"

\* Positions in the call log of the load-tool invocations.
AwscurlCalls == {i \in DOMAIN calls : calls[i].op = "awscurl"}

\* The triple of the k-th credential object, as read by the load tool.
TripleOf(k) ==
    [access_key |-> [object |-> k, attr |-> "access_key"],
     secret_key |-> [object |-> k, attr |-> "secret_key"],
     token |-> [object |-> k, attr |-> "token"]]

TripleIn(invocation) ==
    [access_key |-> invocation.access_key,
     secret_key |-> invocation.secret_key,
     token |-> invocation.token]

\* C17: every invocation of the load tool runs with the access key, secret
\* key and session token of one credential object, the one set_credentials
\* obtained in the same run_benchmark call: the k-th invocation uses the k-th
\* object, set_credentials is the step right before the invocation, and it
\* exports the three values at once.
C17_CredentialsBeforeLoadTool ==
    [][/\ \A i \in AwscurlCalls :
            TripleIn(calls[i])
              = TripleOf(Cardinality({j \in AwscurlCalls : j <= i}))
       /\ pc = "awscurl" =>
            /\ credentials = Cardinality(AwscurlCalls) + 1
            /\ pc' = "awscurling"
            /\ TripleIn(calls'[Len(calls')]) = TripleOf(credentials)
       /\ (pc = "credentials" /\ pc' # "failed") =>
            /\ pc' = "awscurl"
            /\ credentials' = credentials + 1
            /\ Cardinality(AwscurlCalls') = Cardinality(AwscurlCalls)
            /\ "AWS_SESSION_TOKEN" \in DOMAIN environ'
            /\ environ'["AWS_ACCESS_KEY_ID"] = TripleOf(credentials').access_key
            /\ environ'["AWS_SECRET_ACCESS_KEY"] = TripleOf(credentials').secret_key
            /\ environ'["AWS_SESSION_TOKEN"] = TripleOf(credentials').token
       /\ pc # "credentials" => credentials' = credentials]_vars

\* C17 witness: the load tool was invoked a second time, with the triple of
\* the second credential object.
C17_Witness ==
    /\ Cardinality(AwscurlCalls) = 2
    /\ TripleIn(calls[Len(calls)]) = TripleOf(2)
    /\ pc = "awscurling"

----------------------------------------------------------------------------
(* Either notebook, run from its first cell *)

InitSession == InitFlowATwoPass \/ InitFlowBBench

NextSession == NextTwoPass \/ NextBench

SpecSession == InitSession /\ [][NextSession]_vars

----------------------------------------------------------------------------
(* Properties of a session as a whole *)

\* What a logged call attempts: the operation and the thing it is aimed at.
AttemptOf(c) ==
    IF "op" \notin DOMAIN c THEN <<"converse", c.tools[1].name>>
    ELSE IF c.op = "awscurl" THEN <<"awscurl", c.url[4]>>
    ELSE IF "endpoint_name" \in DOMAIN c THEN <<c.op, c.endpoint_name>>
    ELSE <<c.op, "">>

LoadToolRuns ==
    Cardinality({i \in DOMAIN calls :
                   "op" \in DOMAIN calls[i] /\ calls[i].op = "awscurl"})

Failing == pc # "failed" /\ pc' = "failed"

\* C18: nothing is attempted twice: the call log never holds two calls with
\* the same operation and target, and credentials are obtained at most once
\* per run of the load tool. An exception ends the session where it is
\* raised: the failing step leaves the results list, the graph, the
\* vocabulary and the parsed result as they were, and no step follows it.
C18_NoRetry ==
    [][/\ \A i, j \in DOMAIN calls' :
            AttemptOf(calls'[i]) = AttemptOf(calls'[j]) => i = j
       /\ credentials' <= LoadToolRuns' + 1
       /\ credentials' <= NumCells
       /\ err' # "none" => pc' = "failed"
       /\ xpc = "raised" => Failing
       /\ Failing =>
            /\ err' # "none"
            /\ benchmark_results' = benchmark_results
            /\ G' = G
            /\ schema' = schema
            /\ tool_result_dict' = tool_result_dict
            /\ calls' = calls
       /\ pc = "failed" => UNCHANGED vars]_vars

\* C18 witness: the second benchmark run printed no latency line; the
\* session ended at the extraction with one record in the list, after two
\* runs of the load tool and two credential refreshes.
C18_Witness ==
    /\ pc = "failed" /\ err = "UnboundLocalError"
    /\ Len(benchmark_results) = 1
    /\ LoadToolRuns = 2
    /\ credentials = 2

\* C19: the session does one thing at a time. At most one remote call or
\* load-tool run is in flight; a call is submitted only when none is in
\* flight; while one is in flight the only step is its return; the results
\* list changes only in the append that ends a run cell, and the graph only
\* in the steps of the graph assembly cell.
C19_Sequential ==
    [][/\ inflight \in {0, 1} /\ inflight' \in {0, 1}
       /\ pc = "awscurling" => inflight = 1
       /\ calls' # calls =>
            /\ inflight = 0 /\ inflight' = 1
            /\ Len(calls') = Len(calls) + 1
            /\ SubSeq(calls', 1, Len(calls)) = calls
       /\ inflight = 1 => (inflight' = 0 /\ calls' = calls)
       /\ benchmark_results' # benchmark_results => pc = "append"
       /\ G' # G => pc \in {"seed", "loop"}]_vars

\* C19 witness: the second run's describe call is in flight, alone, after the
\* first run's record was appended.
C19_Witness ==
    /\ pc = "describing"
    /\ inflight = 1
    /\ Len(benchmark_results) = 1
    /\ LoadToolRuns = 2

----------------------------------------------------------------------------
(* Cleanup *)

IsDelete(c) == c.op \in {"delete_endpoint", "delete_model"}

\* The delete calls the cleanup cell is to issue: one per deployed endpoint,
\* in deployment order, then one for the model package.
ExpectedDeletes ==
    [n \in 1..NumCells |->
        [op |-> "delete_endpoint", endpoint_name |-> Predictors[n].endpoint_name]]
      \o <<[op |-> "delete_model"]>>

Released ==
    /\ DOMAIN endpoints = {}
    /\ model = "deleted"
    /\ SelectSeq(calls, IsDelete) = ExpectedDeletes

\* C20: in a session in which no step fails the cleanup cell issues one
\* delete call for each deployed endpoint, in deployment order, and then one
\* for the model package: each delete_endpoint call that returns removes the
\* endpoint its line names, delete_model follows the fourth, and the session
\* ends only with every delete issued and no endpoint left.
C20_AllReleased ==
    [][/\ pc = "delete" =>
            /\ pc' = "deleting"
            /\ calls' = Append(calls, ExpectedDeletes[cell])
       /\ (pc = "deleting" /\ pc' # "failed") =>
            /\ Predictors[cell].endpoint_name \notin DOMAIN endpoints'
            /\ pc' = IF cell < NumCells THEN "delete" ELSE "delete_model"
            /\ cell' = IF cell < NumCells THEN cell + 1 ELSE cell
       /\ pc = "delete_model" =>
            /\ pc' = "deleting_model"
            /\ DOMAIN endpoints = {}
            /\ calls' = Append(calls, ExpectedDeletes[NumCells + 1])
       /\ (pc = "deleting_model" /\ pc' # "failed") => pc' = "done"
       /\ pc' = "done" => Released']_vars

\* C20 witness: all four endpoints were deployed and benchmarked, and the
\* session ended after cleanup with none of them left.
C20_Witness ==
    /\ pc = "done"
    /\ Len(benchmark_results) = NumCells
    /\ DOMAIN endpoints = {}
    /\ Len(SelectSeq(calls, IsDelete)) = NumCells + 1

----------------------------------------------------------------------------
(* Partial failure *)

\* The endpoints that are up.
Deployed == {n \in DOMAIN endpoints : endpoints[n].status = "InService"}

\* The endpoints of the first n deploy cells.
FirstEndpoints(n) == {Predictors[k].endpoint_name : k \in 1..n}

NoDeleteIssued == SelectSeq(calls, IsDelete) = <<>>

Raising == err = "none" /\ err' # "none"

\* C21: when a deployment or a step of a benchmark run raises, the session
\* stops there: the endpoints created before (those of the earlier deploy
\* cells, or all four during the runs) are still in service in the resulting
\* state, no delete call has been issued, and no step follows.
C21_NoCleanupOnFailure ==
    [][/\ pc = "deploying" => Deployed = FirstEndpoints(cell - 1)
       /\ pc \in RunPcs => Deployed = FirstEndpoints(NumCells)
       /\ (Raising /\ pc \in RunPcs \cup {"deploying"}) =>
            /\ pc' = "failed"
            /\ Deployed' = Deployed
            /\ NoDeleteIssued'
       /\ err # "none" => UNCHANGED vars]_vars

\* C21 witness: the third deployment failed; the first two endpoints are in
\* service and nothing was deleted.
C21_Witness ==
    /\ pc = "failed" /\ err = "DeployError"
    /\ cell = 3
    /\ Deployed = FirstEndpoints(2)
    /\ NoDeleteIssued

----------------------------------------------------------------------------
(* The load of a benchmark run *)

\* What a run of the load tool is given apart from its target and its
\* credentials.
LoadOf(invocation) ==
    [concurrency |-> invocation.concurrency,
     requests |-> invocation.requests,
     connect_timeout |-> invocation.connect_timeout,
     dataset |-> invocation.dataset,
     files |-> invocation.files]

PayloadFileNames == {PromptFiles[n].file_name : n \in DOMAIN PromptFiles}

\* Each payload holds one text part and one image part.
TextAndImage(payload) ==
    /\ Len(payload.messages) = 1
    /\ Len(payload.messages[1].content) = 2
    /\ payload.messages[1].content[1].type = "text"
    /\ payload.messages[1].content[2].type = "image_url"

\* C22: the payload files are written by the dataset cell only, before the
\* first deployment, and no later step changes them; every run of the load
\* tool is started with the same concurrency, request count, connect
\* timeout, dataset directory and files, and two runs differ in their
\* endpoint URL and in their credentials.
C22_SameLoadEveryRun ==
    [][/\ pc # "dataset" => dataset_files' = dataset_files
       /\ calls' # <<>> =>
            /\ DOMAIN dataset_files' = PayloadFileNames
            /\ \A f \in PayloadFileNames : TextAndImage(dataset_files'[f])
       /\ \A i, j \in AwscurlCalls' :
            /\ LoadOf(calls'[i]) = LoadOf(calls'[j])
            /\ calls'[i].files = dataset_files'
            /\ i # j => /\ calls'[i].url # calls'[j].url
                        /\ TripleIn(calls'[i]) # TripleIn(calls'[j])]_vars

\* C22 witness: all four runs were started, with the four payload files.
C22_Witness ==
    /\ Cardinality(AwscurlCalls) = NumCells
    /\ \A i \in AwscurlCalls : DOMAIN calls[i].files = PayloadFileNames
    /\ pc = "display"

----------------------------------------------------------------------------
(* The graph as a function of the relationship list *)

\* The graph assembly cell as one fold over the list.
RECURSIVE AddEdgesFrom(_, _)
AddEdgesFrom(g, list) ==
    IF list = <<>> THEN g
    ELSE AddEdgesFrom(IF HasBothKeys(list[1])
                      THEN AddEdge(g, list[1]["entity_1"], list[1]["entity_2"])
                      ELSE g,
                      Tail(list))

Assemble(names, list) == AddEdgesFrom(Seeded(names), list)

\* The record with the values of entity_1 and entity_2 exchanged.
SwapEnds(r) ==
    LET rest == DOMAIN r \ {"entity_1", "entity_2"}
        ends == {k \in {"entity_1", "entity_2"} :
                   (IF k = "entity_1" THEN "entity_2" ELSE "entity_1") \in DOMAIN r}
    IN  [k \in rest \cup ends |->
           IF k = "entity_1" THEN r["entity_2"]
           ELSE IF k = "entity_2" THEN r["entity_1"]
           ELSE r[k]]

\* The record with another relationship text.
Relabel(r, label) ==
    [k \in DOMAIN r \cup {"relationship"} |->
       IF k = "relationship" THEN label ELSE r[k]]

OtherLabels == {"founded", "is located in"}

\* The lists one step away from `list`: two neighbours exchanged, the ends of
\* one record exchanged, or the text of one record changed. Every
\* permutation, swap and relabelling is a sequence of such steps.
VariantsOf(list) ==
    {[list EXCEPT ![i] = list[i + 1], ![i + 1] = list[i]] :
        i \in 1..(Len(list) - 1)}
      \cup {[list EXCEPT ![i] = SwapEnds(list[i])] : i \in DOMAIN list}
      \cup {[list EXCEPT ![i] = Relabel(list[i], label)] :
              i \in DOMAIN list, label \in OtherLabels}

\* Same node set and same edge set.
SameGraph(g, h) ==
    /\ g.node = h.node
    /\ \A n \in g.node : DOMAIN g.adj[n] = DOMAIN h.adj[n]

\* C23: the graph the cell ends with is also the graph it would end with for
\* the list with two records exchanged, with the ends of a record exchanged,
\* or with the relationship text of a record changed: same nodes, same
\* edges.
C23_OnlyEndpointPairsMatter ==
    (pc = "done" /\ err = "none") =>
        /\ SameGraph(G, Assemble(schema, Edges))
        /\ \A list \in VariantsOf(Edges) : SameGraph(G, Assemble(schema, list))

\* C23 witness: two records with different pairs were processed, the first
\* one with distinct ends, so that exchanging records or ends changes the
\* input.
C23_Witness ==
    /\ pc = "done" /\ err = "none"
    /\ Len(Edges) = 2
    /\ Valid(Edges[1]) /\ Valid(Edges[2])
    /\ Edges[1]["entity_1"] # Edges[1]["entity_2"]
    /\ ~SameEndpoints(Edges[1], Edges[2])
    /\ "relationship" \in DOMAIN Edges[1]

----------------------------------------------------------------------------
(* The property store examples: a request that declares two tools *)

\* tool_list: addProperty and listProperties
PropertyToolList ==
    <<[name |-> "addProperty",
       required |-> <<"type", "location", "size", "price">>],
      [name |-> "listProperties", required |-> <<"type", "location">>]>>

\* message of the two examples
AddMessage == [content |-> <<"<content>Add a new house in Paris", "create JSON">>]
FindMessage == [content |-> <<"<content>Find me apartments in London", "create JSON">>]

\* Field mappings the remote model may return.
PropertyInputs ==
    {[type |-> "House", location |-> "Paris"],
     [type |-> "Flat", location |-> "London"]}

PropertyBlocks ==
    {TextBlock}
      \cup {ToolUseBlock(n, d) : n \in ToolNames(PropertyToolList),
                                 d \in PropertyInputs}

\* Responses of up to MaxBlocks content blocks, in any mix and order.
PropertyResponses == SeqsUpTo(PropertyBlocks, MaxBlocks)

InitProperty ==
    /\ pc = "property"
    /\ tool_list = PropertyToolList
    /\ message \in {AddMessage, FindMessage}
    /\ response = <<>>
    /\ tool_use_block = Unset
    /\ tool_result_dict = <<>>
    /\ calls = <<>>
    /\ inflight = 0
    /\ schema = <<>>
    /\ G = EmptyGraph
    /\ idx = 0
    /\ err = "none"

PropertySubmit == Submit("property", "await_property")
PropertyReceive ==
    ReceiveFrom("property", "await_property", PropertyResponses, "done")
PropertyError == ReceiveError("property", "await_property")

NextProperty ==
    \/ PropertySubmit /\ UNCHANGED <<extractVars, benchVars>>
    \/ PropertyReceive /\ UNCHANGED <<extractVars, benchVars>>
    \/ PropertyError /\ UNCHANGED <<extractVars, benchVars>>

\* The state before the call cell of either example runs.
InitFlowProperty == InitProperty /\ ExtractIdle /\ BenchIdle

SpecProperty == InitFlowProperty /\ [][NextProperty]_vars

\* C24: the cell ends with one schema invocation, that of the first block in
\* response order that has a toolUse entry: no block before it has one, the
\* blocks after it play no part, and the name reported (tool_use_block's) and
\* the mapping reported (tool_result_dict) are both those of that block.
C24_FirstToolUseSelected ==
    (pc = "done" /\ Len(calls) = 1) =>
        \E k \in DOMAIN response :
            /\ "toolUse" \in DOMAIN response[k]
            /\ \A j \in 1..(k - 1) : "toolUse" \notin DOMAIN response[j]
            /\ tool_use_block = response[k].toolUse
            /\ tool_use_block.name = response[k].toolUse.name
            /\ tool_result_dict = response[k].toolUse.input

\* C24 witness: a text block, then two toolUse blocks of different tools
\* with different mappings; the first of the two was taken.
C24_Witness ==
    /\ pc = "done"
    /\ Len(response) = 3
    /\ response[1] = TextBlock
    /\ response[2] = ToolUseBlock("listProperties", [type |-> "Flat", location |-> "London"])
    /\ response[3] = ToolUseBlock("addProperty", [type |-> "House", location |-> "Paris"])
    /\ tool_use_block.name = "listProperties"
    /\ tool_result_dict = [type |-> "Flat", location |-> "London"]

----------------------------------------------------------------------------
(* A benchmark step that fails *)

\* The output holds a line "Average Latency: <number> ".
HasLatencyLine(out) ==
    \E k \in DOMAIN out, l \in Literals :
        Contains(out[k], Metric(AverageLatency, l))

\* C25: a run cell that raises, in set_credentials, in the instance-type
\* lookup or in the metric extraction, leaves the results list as it was,
\* with no record for its endpoint; the list changes only in the append at
\* the end of a run cell whose load run returned, whose lookup gave the
\* instance type and whose extraction found the latency in the output.
C25_FailedRunAppendsNothing ==
    [][/\ (Raising /\ pc \in RunPcs) =>
            /\ benchmark_results' = benchmark_results
            /\ Len(benchmark_results') = cell' - 1
            /\ pc' = "failed"
       /\ err # "none" => benchmark_results' = benchmark_results
       /\ benchmark_results' # benchmark_results =>
            /\ err = "none" /\ xerr = "none"
            /\ HasLatencyLine(output)
            /\ avg_latency = ReportedLatency(output)
            /\ instance_type = Predictors[cell].instance_type
            /\ Cardinality(AwscurlCalls) = cell
            /\ inflight = 0
            /\ SubSeq(benchmark_results', 1, Len(benchmark_results))
                 = benchmark_results]_vars

\* C25 witness: the instance-type lookup of the third run failed; the list
\* holds the records of the first two runs and nothing for the third.
C25_Witness ==
    /\ pc = "failed" /\ err = "ClientError"
    /\ cell = 3
    /\ Cardinality(AwscurlCalls) = 3
    /\ Len(benchmark_results) = 2
    /\ benchmark_results[2].InstanceType = "ml.g5.24xlarge"

----------------------------------------------------------------------------
(* Order of deployments, runs and deletes *)

CallsOf(op) == {i \in DOMAIN calls : calls[i].op = op}

\* The endpoint a load-tool invocation is aimed at: the name in its URL.
TargetOf(invocation) == invocation.url[4]

\* C26: a run of the load tool is started only against an endpoint that is
\* in service, and the endpoint stays in service while the run is in flight;
\* in the call log every deploy call stands before every run and every
\* delete call after every run, so no run follows the delete of its
\* endpoint.
C26_RunsTargetDeployedEndpoints ==
    [][/\ pc = "awscurl" =>
            /\ TargetOf(calls'[Len(calls')]) = Predictors[cell].endpoint_name
            /\ TargetOf(calls'[Len(calls')]) \in Deployed
            /\ Deployed = FirstEndpoints(NumCells)
       /\ pc = "awscurling" =>
            /\ TargetOf(calls[Len(calls)]) \in Deployed
            /\ Deployed' = Deployed
       /\ \A i \in CallsOf("deploy")', j \in CallsOf("awscurl")' : i < j
       /\ \A j \in CallsOf("awscurl")', k \in CallsOf("delete_endpoint")' : j < k
       /\ \A j \in CallsOf("awscurl")', k \in CallsOf("delete_endpoint")' :
            TargetOf(calls'[j]) = calls'[k].endpoint_name => j < k]_vars

\* C26 witness: the fourth run is in flight against the fourth endpoint,
\* with all four endpoints in service.
C26_Witness ==
    /\ pc = "awscurling"
    /\ cell = NumCells
    /\ TargetOf(calls[Len(calls)]) = "pixtral12b-on-ml-p4d-24xlarge"
    /\ Deployed = FirstEndpoints(NumCells)

=============================================================================
